---------------------------- MODULE Spec2Model ----------------------------
(***************************************************************************)
(* Rule compilation and evaluation engine of the risk-mining system.       *)
(*                                                                         *)
(*   rule_compile/rule_compiler.py   RuleCompiler  (validate / compile)    *)
(*   autoeval/evaluator.py           RuleEvaluator (metrics / selection)   *)
(*   main.py                         RiskMiningSystem.run_pipeline         *)
(*                                                                         *)
(* The specifications share the variables below:                           *)
(*   Spec      start-up and one run of run_pipeline over a batch of rule   *)
(*             definitions                                                  *)
(*   SpecRule  one rule definition validated, compiled and applied to one  *)
(*             record through the RuleCompiler API                         *)
(*   SpecEval  one call of RuleEvaluator.evaluate_and_select_rules on a    *)
(*             caller-supplied list of compiled rules                      *)
(*   SpecScore scoring and selection of one rule with a given MetricSet    *)
(*   SpecApi   SpecRule and SpecEval together                              *)
(*                                                                         *)
(* A DSL text is modelled as its sequence of lexical tokens; the text is   *)
(* the tokens joined by single blanks.  Floating point numbers are         *)
(* modelled as exact rationals <<numerator, denominator>>.                 *)
(***************************************************************************)
EXTENDS Integers, Sequences, FiniteSets, TLC

VARIABLES
    pc,              \* position of the modelled caller / of run_pipeline
    rules,           \* run_pipeline: the batch returned by generate_rules
    idx,             \* run_pipeline: index of the rule the stage-4 loop is at
    compiled_rules,  \* run_pipeline / evaluator argument: list of compiled rules
    exc,             \* exception that left the operation ("" when none)
    data,            \* evaluator argument: index (entity ids) of the DataFrame
    anomaly_scores,  \* evaluator argument: entity id -> anomaly score
    config,          \* configuration dict (top_n_rules, min/max_coverage)
    evaluated_rules, \* evaluator local: scored rules after the sort (line 60)
    selected_rules,  \* value returned by evaluate_and_select_rules
    rule,            \* SpecRule: the rule definition under test
    record,          \* SpecRule: the record the predicate is applied to
    valid,           \* SpecRule: value returned by validate_rule
    outcome          \* SpecRule: what compiling and calling the predicate gave

vars == <<pc, rules, idx, compiled_rules, exc, data, anomaly_scores, config,
          evaluated_rules, selected_rules, rule, record, valid, outcome>>

---------------------------------------------------------------------------
(* Bounds of the model                                                     *)

\* longest batch handed to run_pipeline
MaxBatch == 2

\* longest list handed to evaluate_and_select_rules
MaxRules == 3

---------------------------------------------------------------------------
(* Lexical universe of the DSL                                             *)

\* identifiers that occur in the modelled DSL texts
Names == {"a", "b", "g", "z", "foo", "abs", "max", "min", "True",
          "Qx_y", "Q25_g_industry"}

\* numeric literals that occur in the modelled DSL texts
NumLits == {"0", "0.5", "1", "5", "20"}

\* str.startswith('Q') on the identifiers of Names
StartsWithQ(var) == var \in {"Qx_y", "Q25_g_industry"}

\* '_' in var, on the identifiers of Names
HasUnderscore(var) == var \in {"Qx_y", "Q25_g_industry"}

\* first character of a token is '0'
StartsWithZeroChar(tok) == tok \in {"0", "0.5"}

\* RuleCompiler.__init__: self.allowed_functions
allowed_functions == {"abs", "max", "min"}

\* validate_rule: required_fields
required_fields == {"id", "rule_text", "dsl", "variables_used", "period",
                    "industry_scope"}

---------------------------------------------------------------------------
(* _translate_to_python / the replace chain of _validate_dsl_syntax        *)
(* dsl.replace('&&',' and ').replace('||',' or ').replace('!',' not ')     *)

\* one DSL token to the Python tokens the three replacements leave of it;
\* the third replacement also hits the '!' of '!=' and leaves 'not' '='
TranslateToken(tok) ==
    CASE tok = "&&" -> <<"and">>
      [] tok = "||" -> <<"or">>
      [] tok = "!"  -> <<"not">>
      [] tok = "!=" -> <<"not", "=">>
      [] OTHER      -> <<tok>>

RECURSIVE TranslateFrom(_, _)
TranslateFrom(dsl, i) ==
    IF i > Len(dsl) THEN <<>>
    ELSE TranslateToken(dsl[i]) \o TranslateFrom(dsl, i + 1)

\* the replaced text starts with a blank when the DSL starts with a replaced
\* operator (each replacement string starts with a blank)
LeadingBlank(dsl) == Len(dsl) > 0 /\ dsl[1] \in {"&&", "||", "!", "!="}

translate_to_python(dsl) ==
    [toks |-> TranslateFrom(dsl, 1), leading_blank |-> LeadingBlank(dsl)]

---------------------------------------------------------------------------
(* ast.parse(python_expr): Python's expression grammar over the token     *)
(* universe, by precedence level:                                           *)
(*   1 or_test   2 and_test   3 not_test   4 comparison   5 arith_expr      *)
(*   6 term      7 factor     8 atom with call trailers                     *)
(* Parse takes the token sequence, a start position and a level and gives   *)
(* the position after the construct, or 0 when it does not parse.           *)
(* (Two operators carry the whole descent.)                                 *)

PyKeywords == {"and", "or", "not"}

PyCompOps == {">", "<", ">=", "<=", "==", "!="}

IsPyAtomToken(tok) == tok \in (Names \ PyKeywords) \cup NumLits

At(s, i, tok) == i >= 1 /\ i <= Len(s) /\ s[i] = tok

\* the binary operators of a level (levels 3, 7, 8 have none)
LevelOps(lvl) ==
    CASE lvl = 1 -> {"or"}
      [] lvl = 2 -> {"and"}
      [] lvl = 4 -> PyCompOps
      [] lvl = 5 -> {"+", "-"}
      [] lvl = 6 -> {"*", "/"}
      [] OTHER   -> {}

\* the prefix operators of a level
PrefixOps(lvl) ==
    CASE lvl = 3 -> {"not"}
      [] lvl = 7 -> {"+", "-"}
      [] OTHER   -> {}

RECURSIVE Parse(_, _, _), Cont(_, _, _, _)

\* the construct of level lvl that starts at position i: at level 8 a name,
\* a number or '(' test ')', then call trailers; below, prefix operators of
\* the level, then operand (operator operand)* over the next level
Parse(s, i, lvl) ==
    IF lvl = 8
    THEN IF i > Len(s) THEN 0
         ELSE IF IsPyAtomToken(s[i]) THEN Cont(s, i + 1, "trailers", 8)
         ELSE IF s[i] = "(" THEN Cont(s, i + 1, "list", 8)
         ELSE 0
    ELSE IF i <= Len(s) /\ s[i] \in PrefixOps(lvl)
    THEN Parse(s, i + 1, lvl)
    ELSE Cont(s, i, "operand", lvl)

\* the rest of a construct of level lvl from position j on, k saying what
\* is expected there:
\*   "operand"   an operand (a construct of level lvl + 1)
\*   "ops"       a binary operator of the level and a further operand, or
\*               the end of the construct
\*   "list"      after '(' of an atom or of a call trailer: ')' or a test
\*               followed by ',' or ')' (tuples, argument lists; a trailing
\*               comma is allowed)
\*   "trailers"  call trailers '(' ... ')', or the end
\*   "top"       an expression statement: test (',' test)* [',']
Cont(s, j, k, lvl) ==
    CASE k = "operand" ->
              LET e == Parse(s, j, lvl + 1)
              IN IF e = 0 THEN 0 ELSE Cont(s, e, "ops", lvl)
      [] k = "ops" ->
              IF j <= Len(s) /\ s[j] \in LevelOps(lvl)
              THEN Cont(s, j + 1, "operand", lvl)
              ELSE j
      [] k = "trailers" ->
              IF At(s, j, "(") THEN Cont(s, j + 1, "list", 8) ELSE j
      [] k = "list" ->
              IF At(s, j, ")") THEN Cont(s, j + 1, "trailers", 8)
              ELSE LET e == Parse(s, j, 1)
                   IN IF e = 0 THEN 0
                      ELSE IF At(s, e, ",") THEN Cont(s, e + 1, "list", 8)
                      ELSE IF At(s, e, ")") THEN Cont(s, e + 1, "trailers", 8)
                      ELSE 0
      [] k = "top" ->
              LET e == Parse(s, j, 1)
              IN IF e = 0 THEN 0
                 ELSE IF At(s, e, ",") /\ e < Len(s) THEN Cont(s, e + 1, "top", 1)
                 ELSE IF At(s, e, ",") THEN e + 1
                 ELSE e

\* ast.parse in its default 'exec' mode: an empty module parses, and so does
\* one expression statement; text that starts with a blank is an
\* IndentationError ("unexpected indent"), a subclass of SyntaxError.  (The
\* token universe has no '=' of its own and no statement keyword; the '='
\* left of '!=' always follows 'not', which no statement allows.)
ast_parse_ok(py) ==
    /\ ~py.leading_blank
    /\ \/ py.toks = <<>>
       \/ Cont(py.toks, 1, "top", 1) = Len(py.toks) + 1

---------------------------------------------------------------------------
(* RuleCompiler: validation                                                *)

validate_dsl_syntax(dsl) == ast_parse_ok(translate_to_python(dsl))

\* re.findall(r'\b([a-zA-Z_]\w*)\b', dsl): the identifier tokens of the text
IdentifierMatches(dsl) ==
    {dsl[i] : i \in {k \in 1..Len(dsl) : dsl[k] \in Names \cup PyKeywords}}

keywords == {"and", "or", "not", "True", "False", "abs", "max", "min"}

validate_variable_references(dsl, variables_used) ==
    LET variables_in_dsl ==
            {var \in IdentifierMatches(dsl) :
                var \notin keywords /\ var \notin allowed_functions}
    IN \A var \in variables_in_dsl :
          \/ (StartsWithQ(var) /\ HasUnderscore(var))
          \/ var \in variables_used

\* '/' in dsl and ('/0' in dsl or '/ 0' in dsl), the text being the tokens
\* joined by single blanks
has_division_by_zero_risk(dsl) ==
    \E i \in 1..Len(dsl) :
        dsl[i] = "/" /\ i < Len(dsl) /\ StartsWithZeroChar(dsl[i + 1])

\* validate_rule: 'field not in rule' tests the key, not its value; the
\* division check only logs a warning (lines 57-59)
validate_rule(r) ==
    IF \E field \in required_fields : field \notin r.fields THEN FALSE
    ELSE IF ~validate_dsl_syntax(r.dsl) THEN FALSE
    ELSE IF ~validate_variable_references(r.dsl, r.variables_used) THEN FALSE
    ELSE TRUE

---------------------------------------------------------------------------
(* RuleCompiler: compilation                                               *)

\* _create_execution_function: func_code is a triple-quoted f-string whose
\* lines keep the 8 blanks of the method body, so its first statement
\* "        def execute_rule(data):" is indented and exec(func_code,
\* namespace) raises IndentationError for every python_expr
create_execution_function(python_expr, variables_used) ==
    [raised |-> TRUE, exc |-> "IndentationError", fn |-> "execute_rule"]

\* a copy() that hands back the dict it was called on
MutSameDict(ref, n) == ref

\* dict.copy(): a new dict object.  Dict objects are named by references:
\* the dict at position i of an input list of n dicts is i, the copy made
\* of it is n + i
dict_copy(ref, n) == n + ref

\* the dicts of the list ds after the item assignments of writes, a
\* function from the reference of a dict to the items assigned on it
\* (key -> value): each assignment lands in the dict its reference names
AfterWrites(ds, writes) ==
    [i \in DOMAIN ds |->
        IF i \in DOMAIN writes THEN writes[i] @@ ds[i] ELSE ds[i]]

\* compile_rule: copy, translate, create the function; nothing is caught.
\* compiled_rule['python_expression'] is assigned (line 131) before
\* _create_execution_function is called; rule_after is the input dict as
\* the call leaves it
compile_rule(r) ==
    LET compiled_rule == dict_copy(1, 1)
        python_expr == translate_to_python(r.dsl)
        f == create_execution_function(python_expr, r.variables_used)
        rule_after ==
            AfterWrites(<<r>>,
                [ref \in {compiled_rule} |->
                    IF f.raised
                    THEN ("python_expression" :> python_expr)
                    ELSE ("python_expression" :> python_expr)
                         @@ ("execute_function" :> f.fn)])[1]
    IN IF f.raised
       THEN [raised |-> TRUE, exc |-> f.exc, rule_after |-> rule_after]
       ELSE [raised |-> FALSE, exc |-> "", rule_after |-> rule_after,
             compiled_rule |-> r @@ ("python_expression" :> python_expr)
                                 @@ ("execute_function" :> f.fn)]


\* body of the generated execute_rule(data), were it ever defined: its
\* globals are the empty dict handed to exec, so the first name it reads,
\* variables_used, is a NameError; the except clause then reads logger, a
\* second NameError, which leaves the function
execute_rule(compiled_rule, row) == "raise"

---------------------------------------------------------------------------
(* Inputs: rule definitions and records                                    *)

\* a rule definition dict: fields is the set of its keys, empty the keys of
\* text fields whose value is the empty string (an empty dsl is <<>>, an
\* empty variables_used is {})
RuleDef(id, dsl, variables_used) ==
    [id |-> id, dsl |-> dsl, variables_used |-> variables_used,
     fields |-> required_fields, empty |-> {}]

\* the rule definitions the model draws from; 3 is the second fallback rule
\* of rule_generator.py, 14 lacks the key 'period', 20 has '' as its period
RuleDefs == <<
    RuleDef(1,  <<"a", ">", "20", "&&", "b", "<", "5">>, {"a", "b"}),
    RuleDef(2,  <<"a", ">", "20", "||", "b", "<", "5">>, {"a", "b"}),
    RuleDef(3,  <<"a", ">", "20", "&&", "g", "<", "Q25_g_industry">>,
                {"a", "g"}),
    RuleDef(4,  <<"a", "/", "b", ">", "1">>, {"a", "b"}),
    RuleDef(5,  <<"a", "/", "0", ">", "1">>, {"a"}),
    RuleDef(6,  <<"a", "/", "0.5", ">", "1">>, {"a"}),
    RuleDef(7,  <<"z", ">", "1">>, {"a"}),
    RuleDef(8,  <<"Qx_y", ">", "1">>, {"a"}),
    RuleDef(9,  <<"!", "a">>, {"a"}),
    RuleDef(10, <<"a", "!=", "b">>, {"a", "b"}),
    RuleDef(11, <<>>, {}),
    RuleDef(12, <<"a", ">">>, {"a"}),
    RuleDef(13, <<"foo", "(", "a", ")", ">", "1">>, {"a"}),
    [RuleDef(14, <<"a", ">", "20">>, {"a"})
        EXCEPT !.fields = required_fields \ {"period"}],
    RuleDef(15, <<"a", ">", "20", "&&", "!", "b", "<", "5">>, {"a", "b"}),
    RuleDef(16, <<"abs", "(", "a", "-", "b", ")", ">", "5">>, {"a", "b"}),
    RuleDef(17, <<"foo", "(", "a", ")", ">", "1">>, {"a", "foo"}),
    RuleDef(18, <<"abs", "(", "a", ",", "b", ")", ">", "1">>, {"a", "b"}),
    RuleDef(19, <<"max", "(", "a", ")", ">", "1">>, {"a"}),
    [RuleDef(20, <<"a", ">", "20">>, {"a"}) EXCEPT !.empty = {"period"}],
    RuleDef(21, <<"a", ">=", "20", "||", "b", "<=", "5">>, {"a", "b"}),
    RuleDef(22, <<"a", "==", "b">>, {"a", "b"})
>>

\* the records the model draws from: variable name -> value
Records == {
    ("a" :> 25) @@ ("b" :> 3),
    ("a" :> 10) @@ ("b" :> 3),
    ("a" :> 25) @@ ("b" :> 0),
    ("a" :> 25) @@ ("b" :> 3) @@ ("g" :> 1),
    ("a" :> 25),
    ("a" :> 10),
    ("b" :> 3),
    <<>>
}

NoRule == RuleDef(0, <<>>, {})

---------------------------------------------------------------------------
(* SpecRule: validate_rule, then compile_rule and a call of the predicate   *)

InitRule ==
    /\ pc = "rule_start"
    /\ rule \in {RuleDefs[i] : i \in DOMAIN RuleDefs}
    /\ record \in Records
    /\ valid = FALSE
    /\ outcome = "none"
    /\ exc = ""
    /\ rules = <<>>
    /\ idx = 0
    /\ compiled_rules = <<>>
    /\ data = {}
    /\ anomaly_scores = <<>>
    /\ config = <<>>
    /\ evaluated_rules = <<>>
    /\ selected_rules = <<>>

\* validate_rule(rule)
ValidateRule ==
    /\ pc = "rule_start"
    /\ valid' = validate_rule(rule)
    /\ pc' = IF validate_rule(rule) THEN "validated" ELSE "rejected"
    /\ UNCHANGED <<rules, idx, compiled_rules, exc, data, anomaly_scores,
                   config, evaluated_rules, selected_rules, rule, record,
                   outcome>>

\* compile_rule(rule) on a rule that passed validation (main.py line 81-82),
\* then compiled_rule['execute_function'](record)
CompileAndExecute ==
    /\ pc = "validated"
    /\ LET c == compile_rule(rule)
       IN IF c.raised
          THEN /\ outcome' = "raise"
               /\ exc' = c.exc
               /\ pc' = "compile_raised"
          ELSE /\ outcome' = execute_rule(c.compiled_rule, record)
               /\ exc' = ""
               /\ pc' = "called"
    /\ rule' = compile_rule(rule).rule_after
    /\ UNCHANGED <<rules, idx, compiled_rules, data, anomaly_scores, config,
                   evaluated_rules, selected_rules, record, valid>>

NextRule == ValidateRule \/ CompileAndExecute

SpecRule == InitRule /\ [][NextRule]_vars

---------------------------------------------------------------------------
(* Exact rationals <<n, d>>, d > 0, in lowest terms, for Python's floats    *)

RECURSIVE GCD(_, _)
GCD(m, n) == IF n = 0 THEN m ELSE GCD(n, m % n)

Abs(n) == IF n < 0 THEN -n ELSE n

Rat(n, d) ==
    LET g == GCD(Abs(n), d) IN IF g = 0 THEN <<0, 1>> ELSE <<n \div g, d \div g>>

RAdd(x, y) == Rat(x[1] * y[2] + y[1] * x[2], x[2] * y[2])

RMul(x, y) == Rat(x[1] * y[1], x[2] * y[2])

\* x / y for y > 0
RDiv(x, y) == Rat(x[1] * y[2], x[2] * y[1])

RLe(x, y) == x[1] * y[2] <= y[1] * x[2]

RLt(x, y) == x[1] * y[2] < y[1] * x[2]

RMax(x, y) == IF RLt(x, y) THEN y ELSE x

RMin(x, y) == IF RLt(y, x) THEN y ELSE x

RZero == <<0, 1>>

ROne == <<1, 1>>

---------------------------------------------------------------------------
(* RuleEvaluator: metrics                                                  *)

\* the entity ids (DataFrame index values, keys of the anomaly score map)
Entities == {"e1", "e2"}

\* RuleEvaluator.__init__: self.metric_weights, a fixed literal; the config
\* handed to the constructor is stored and not read for the weights
metric_weights ==
    [coverage |-> <<1, 5>>, anomaly_lift |-> <<3, 10>>, stability |-> <<1, 5>>,
     specificity |-> <<1, 5>>, consistency |-> <<1, 10>>]

MetricNames == {"coverage", "anomaly_lift", "stability", "specificity",
                "consistency"}

\* execute_func(row_dict) of a caller-supplied compiled rule on the row of
\* entity e: "true", "false" or "raise"
Call(r, e) == r.execute_function[e]

RECURSIVE SumScores(_, _)
SumScores(scores, keys) ==
    IF keys = {} THEN RZero
    ELSE LET k == CHOOSE x \in keys : TRUE
         IN RAdd(scores[k], SumScores(scores, keys \ {k}))

\* np.mean over the values at keys (keys non-empty)
Mean(scores, keys) ==
    RDiv(SumScores(scores, keys), <<Cardinality(keys), 1>>)

\* a coverage whose loop counts every row, hit or not
MutCoverageCountsRows(r, d) ==
    [raised |-> \E e \in d : Call(r, e) = "raise",
     value |-> IF d = {} THEN RZero ELSE ROne]

\* _calculate_coverage: hit_count / total_count, 0.0 for an empty DataFrame;
\* an exception of execute_func leaves the method
calculate_coverage(r, d) ==
    IF \E e \in d : Call(r, e) = "raise"
    THEN [raised |-> TRUE, value |-> RZero]
    ELSE LET hit_count == Cardinality({e \in d : Call(r, e) = "true"})
             total_count == Cardinality(d)
         IN [raised |-> FALSE,
             value |-> IF total_count > 0 THEN Rat(hit_count, total_count)
                       ELSE RZero]

\* _calculate_anomaly_lift: mean score of the hit rows that have a score,
\* over the mean of all values of the score map; 1.0 when either list is
\* empty or the overall mean is not positive
calculate_anomaly_lift(r, d, scores) ==
    IF \E e \in d : Call(r, e) = "raise"
    THEN [raised |-> TRUE, value |-> ROne]
    ELSE LET hit_keys == {e \in d : Call(r, e) = "true" /\ e \in DOMAIN scores}
             all_keys == DOMAIN scores
         IN [raised |-> FALSE,
             value |-> IF hit_keys = {} \/ all_keys = {} THEN ROne
                       ELSE LET hit_mean == Mean(scores, hit_keys)
                                all_mean == Mean(scores, all_keys)
                            IN IF RLt(RZero, all_mean)
                               THEN RDiv(hit_mean, all_mean)
                               ELSE ROne]

\* _calculate_stability, _calculate_specificity,
\* _calculate_industry_consistency: the constants 0.8, 0.7, 0.6
calculate_stability(r, d) == <<4, 5>>

calculate_specificity(r) == <<7, 10>>

calculate_industry_consistency(r, d) == <<3, 5>>

\* _calculate_rule_metrics: the five metrics, or the exception of the first
\* metric that raised
calculate_rule_metrics(r, d, scores) ==
    LET coverage == calculate_coverage(r, d)
        anomaly_lift == calculate_anomaly_lift(r, d, scores)
    IN IF coverage.raised \/ anomaly_lift.raised
       THEN [raised |-> TRUE]
       ELSE [raised |-> FALSE,
             metrics |-> [coverage |-> coverage.value,
                          anomaly_lift |-> anomaly_lift.value,
                          stability |-> calculate_stability(r, d),
                          specificity |-> calculate_specificity(r),
                          consistency |-> calculate_industry_consistency(r, d)]]

\* a clamp that lacks the max(0.0, ...) around the min
MutClampUpperOnly(value) == RMin(ROne, value)

\* max(0.0, min(1.0, value))
Clamp01(value) == RMax(RZero, RMin(ROne, value))

RECURSIVE WeightedSum(_, _)
WeightedSum(metrics, names) ==
    IF names = {} THEN RZero
    ELSE LET m == CHOOSE x \in names : TRUE
         IN RAdd(RMul(Clamp01(metrics[m]), metric_weights[m]),
                 WeightedSum(metrics, names \ {m}))

\* _calculate_overall_score: sum of weight * clamped value over the metrics
\* of self.metric_weights that the metric dict holds
calculate_overall_score(metrics) ==
    WeightedSum(metrics, MetricNames \cap DOMAIN metrics)

---------------------------------------------------------------------------
(* RuleEvaluator: ranking and selection                                    *)

\* an evaluation loop whose try encloses the loop instead of its body: the
\* first rule whose metrics raise ends the loop
RECURSIVE MutEvaluateUntilError(_, _, _, _)
MutEvaluateUntilError(crs, i, d, scores) ==
    IF i > Len(crs) THEN <<>>
    ELSE LET m == calculate_rule_metrics(crs[i], d, scores)
         IN IF m.raised
            THEN <<>>
            ELSE <<crs[i] @@ ("metrics" :> m.metrics)>>
                 \o MutEvaluateUntilError(crs, i + 1, d, scores)

\* lines 45-53: the evaluation loop; a rule whose metrics raise is logged
\* and left out, the loop goes on with the next rule
RECURSIVE EvaluateFrom(_, _, _, _)
EvaluateFrom(crs, i, d, scores) ==
    IF i > Len(crs) THEN <<>>
    ELSE LET m == calculate_rule_metrics(crs[i], d, scores)
         IN IF m.raised
            THEN EvaluateFrom(crs, i + 1, d, scores)
            ELSE <<crs[i] @@ ("metrics" :> m.metrics)>>
                 \o EvaluateFrom(crs, i + 1, d, scores)

\* lines 56-57: rule['overall_score'] = ...
WithScores(ers) ==
    [i \in 1..Len(ers) |->
        ers[i] @@ ("overall_score" :> calculate_overall_score(ers[i].metrics))]

\* position of x in a list sorted by descending score: behind every element
\* whose score is not smaller (the elements already there came earlier in
\* the input, and list.sort keeps equal keys in input order, also with
\* reverse=True)
RECURSIVE InsertDesc(_, _)
InsertDesc(x, sorted) ==
    IF sorted = <<>> THEN <<x>>
    ELSE IF RLe(x.overall_score, Head(sorted).overall_score)
         THEN <<Head(sorted)>> \o InsertDesc(x, Tail(sorted))
         ELSE <<x>> \o sorted

\* line 60: evaluated_rules.sort(key=overall_score, reverse=True)
RECURSIVE SortDescFrom(_, _, _)
SortDescFrom(ers, i, acc) ==
    IF i > Len(ers) THEN acc
    ELSE SortDescFrom(ers, i + 1, InsertDesc(ers[i], acc))

sort_by_overall_score(ers) == SortDescFrom(ers, 1, <<>>)

\* evaluated_rules[:top_n], Python slice semantics
SliceTo(s, n) ==
    IF n >= 0 THEN SubSeq(s, 1, IF n < Len(s) THEN n ELSE Len(s))
    ELSE SubSeq(s, 1, IF Len(s) + n > 0 THEN Len(s) + n ELSE 0)

InBand(coverage, cfg) ==
    RLe(cfg.min_coverage, coverage) /\ RLe(coverage, cfg.max_coverage)

\* lines 194-198: keep, in order, the rules whose coverage is in the band
RECURSIVE FilterBand(_, _, _)
FilterBand(ers, i, cfg) ==
    IF i > Len(ers) THEN <<>>
    ELSE (IF InBand(ers[i].metrics.coverage, cfg) THEN <<ers[i]>> ELSE <<>>)
         \o FilterBand(ers, i + 1, cfg)

\* a selection that filters by the band first and cuts to top_n_rules after,
\* so that rules from below position N fill the places of dropped ones
MutSelectBandFirst(ers, cfg) ==
    SliceTo(FilterBand(ers, 1, cfg), cfg.top_n_rules)

\* _select_optimal_rules: the first top_n_rules of the ranking, then the
\* coverage band
select_optimal_rules(ers, cfg) ==
    LET selected == SliceTo(ers, cfg.top_n_rules)
    IN FilterBand(selected, 1, cfg)

\* the item assignments of lines 50 and 57: 'metrics' and 'overall_score'
\* are set on rule_with_metrics, the dict that rule.copy() returned
evaluation_writes(crs, d, scores) ==
    LET evaluated == {i \in DOMAIN crs : ~calculate_coverage(crs[i], d).raised}
        rule_with_metrics(i) == dict_copy(i, Len(crs))
    IN [ref \in {rule_with_metrics(i) : i \in evaluated} |->
           LET i == CHOOSE k \in evaluated : rule_with_metrics(k) = ref
               m == calculate_rule_metrics(crs[i], d, scores)
           IN ("metrics" :> m.metrics)
              @@ ("overall_score" :> calculate_overall_score(m.metrics))]

\* the list of input dicts as evaluate_and_select_rules leaves it
\* (evaluated_rules is a list of its own, built by append and sorted in
\* place)
inputs_after_evaluation(crs, d, scores) ==
    AfterWrites(crs, evaluation_writes(crs, d, scores))

\* evaluate_and_select_rules: the ranking and the value returned
evaluate_and_select_rules(crs, d, scores, cfg) ==
    LET ers == sort_by_overall_score(WithScores(EvaluateFrom(crs, 1, d, scores)))
    IN [evaluated |-> ers, selected |-> select_optimal_rules(ers, cfg)]

---------------------------------------------------------------------------
(* Inputs of the evaluator                                                 *)

\* behaviours of a caller-supplied execute_function over the rows: a
\* predicate of the entity, or a function that raises on every row
ExecFunctions ==
    [Entities -> {"true", "false"}] \cup {[e \in Entities |-> "raise"]}

\* lists of compiled rules with distinct ids, the ids ascending or
\* descending along the list
CompiledRuleLists ==
    UNION {{[i \in 1..n |->
                [id |-> IF asc THEN i ELSE n + 1 - i,
                 execute_function |-> fs[i]]] :
            fs \in [1..n -> ExecFunctions], asc \in BOOLEAN} :
           n \in 0..MaxRules}

\* the DataFrames the model draws from: all entities, one of them, or no
\* row at all
DataSets == {Entities, {"e1"}, {}}

\* anomaly score maps, scores in [0, 1]
AnomalyMaps == {
    ("e1" :> <<1, 1>>) @@ ("e2" :> <<0, 1>>),
    ("e1" :> <<1, 2>>) @@ ("e2" :> <<1, 1>>),
    ("e1" :> <<1, 1>>)
}

\* coverage bands <<min_coverage, max_coverage>>; the last has min > max
Bands == {
    <<(<<0, 1>>), (<<1, 1>>)>>,
    <<(<<1, 2>>), (<<1, 2>>)>>,
    <<(<<1, 2>>), (<<1, 1>>)>>,
    <<(<<0, 1>>), (<<1, 2>>)>>,
    <<(<<1, 1>>), (<<1, 2>>)>>
}

Configs ==
    {[top_n_rules |-> n, min_coverage |-> b[1], max_coverage |-> b[2]] :
        n \in 1..MaxRules, b \in Bands}

\* ConfigManager._get_default_config: top_n_rules 10, min_coverage 0.02,
\* max_coverage 0.08
DefaultConfig ==
    [top_n_rules |-> 10, min_coverage |-> <<1, 50>>, max_coverage |-> <<2, 25>>]

---------------------------------------------------------------------------
(* SpecEval: one call of evaluate_and_select_rules                         *)

InitEval ==
    /\ pc = "eval_start"
    /\ compiled_rules \in CompiledRuleLists
    /\ data \in DataSets
    /\ anomaly_scores \in AnomalyMaps
    /\ config \in Configs
    /\ evaluated_rules = <<>>
    /\ selected_rules = <<>>
    /\ exc = ""
    /\ rules = <<>>
    /\ idx = 0
    /\ rule = NoRule
    /\ record = <<>>
    /\ valid = FALSE
    /\ outcome = "none"

\* evaluate_and_select_rules(compiled_rules, data, anomaly_scores)
EvaluateAndSelect ==
    /\ pc = "eval_start"
    /\ \E res \in {evaluate_and_select_rules(compiled_rules, data,
                                               anomaly_scores, config)} :
          /\ evaluated_rules' = res.evaluated
          /\ selected_rules' = res.selected
          /\ compiled_rules' = inputs_after_evaluation(compiled_rules, data,
                                                       anomaly_scores)
    /\ pc' = "eval_done"
    /\ UNCHANGED <<rules, idx, exc, data, anomaly_scores, config, rule,
                   record, valid, outcome>>

NextEval == EvaluateAndSelect

SpecEval == InitEval /\ [][NextEval]_vars

---------------------------------------------------------------------------
(* SpecScore: the scoring, ranking and selection steps of                  *)
(* evaluate_and_select_rules (lines 56-63) on one evaluated rule whose     *)
(* MetricSet is drawn from MetricSets, by an evaluator constructed as      *)
(* RuleEvaluator(config)                                                    *)

\* raw metric values, inside and outside [0, 1]
RawValues == {<<-1, 2>>, <<0, 1>>, <<1, 2>>, <<1, 1>>, <<16, 5>>}

MetricSets == [MetricNames -> RawValues]

\* weight mappings a caller may put in the configuration; the first equals
\* the literal of RuleEvaluator.__init__
WeightMappings == {
    metric_weights,
    [coverage |-> <<1, 2>>, anomaly_lift |-> <<1, 2>>, stability |-> <<0, 1>>,
     specificity |-> <<0, 1>>, consistency |-> <<0, 1>>]
}

\* configurations handed to RuleEvaluator(config)
ScoreConfigs ==
    {[top_n_rules |-> 1, min_coverage |-> b[1], max_coverage |-> b[2],
      metric_weights |-> w] :
        b \in {<<(<<0, 1>>), (<<1, 1>>)>>, <<(<<1, 2>>), (<<1, 2>>)>>},
        w \in WeightMappings}

\* RuleEvaluator.__init__ has stored config in self.config and set
\* self.metric_weights to its literal; evaluated_rules is the list after
\* the evaluation loop
InitScore ==
    /\ pc = "score_start"
    /\ config \in ScoreConfigs
    /\ evaluated_rules \in {<<[id |-> 1, metrics |-> m]>> : m \in MetricSets}
    /\ selected_rules = <<>>
    /\ compiled_rules = <<>>
    /\ data = {}
    /\ anomaly_scores = <<>>
    /\ exc = ""
    /\ rules = <<>>
    /\ idx = 0
    /\ rule = NoRule
    /\ record = <<>>
    /\ valid = FALSE
    /\ outcome = "none"

\* lines 56-60: rule['overall_score'] = ..., then the sort
ScoreRules ==
    /\ pc = "score_start"
    /\ evaluated_rules' = sort_by_overall_score(WithScores(evaluated_rules))
    /\ pc' = "scored"
    /\ UNCHANGED <<rules, idx, compiled_rules, exc, data, anomaly_scores,
                   config, selected_rules, rule, record, valid, outcome>>

\* line 63: selected_rules = self._select_optimal_rules(evaluated_rules)
SelectScored ==
    /\ pc = "scored"
    /\ selected_rules' = select_optimal_rules(evaluated_rules, config)
    /\ pc' = "score_done"
    /\ UNCHANGED <<rules, idx, compiled_rules, exc, data, anomaly_scores,
                   config, evaluated_rules, rule, record, valid, outcome>>

NextScore == ScoreRules \/ SelectScored

SpecScore == InitScore /\ [][NextScore]_vars

---------------------------------------------------------------------------
(* SpecApi: a call sequence on either component, validate_rule and         *)
(* compile_rule on a rule definition or evaluate_and_select_rules on a     *)
(* list of compiled rules                                                   *)

InitApi == InitRule \/ InitEval

NextApi == NextRule \/ NextEval

SpecApi == InitApi /\ [][NextApi]_vars

---------------------------------------------------------------------------
(* Spec: RiskMiningSystem(config_path), then run_pipeline from stage 4 on,   *)
(* the batch of rule definitions being what stage 3 (generate_rules, an     *)
(* external collaborator) returned                                          *)

\* what is at config_path: no file, or a JSON file with the given content
\* (the second has min_coverage > max_coverage, the third top_n_rules = 0)
ConfigFiles == {
    [exists |-> FALSE],
    [exists |-> TRUE,
     content |-> [top_n_rules |-> 10, min_coverage |-> <<2, 25>>,
                  max_coverage |-> <<1, 50>>]],
    [exists |-> TRUE,
     content |-> [top_n_rules |-> 0, min_coverage |-> <<1, 50>>,
                  max_coverage |-> <<2, 25>>]]
}

\* ConfigManager._load_config: the parsed JSON as it is, or the default
\* configuration when there is no file
load_config(file) == IF file.exists THEN file.content ELSE DefaultConfig

Batches ==
    UNION {[1..n -> {RuleDefs[i] : i \in DOMAIN RuleDefs}] : n \in 0..MaxBatch}

Init ==
    /\ pc = "startup"
    /\ rules \in Batches
    /\ idx = 1
    /\ compiled_rules = <<>>
    /\ exc = ""
    /\ data = Entities
    /\ anomaly_scores \in AnomalyMaps
    /\ config = <<>>
    /\ evaluated_rules = <<>>
    /\ selected_rules = <<>>
    /\ rule = NoRule
    /\ record = <<>>
    /\ valid = FALSE
    /\ outcome = "none"

\* RiskMiningSystem.__init__: the configuration is loaded and handed to the
\* five modules, whose constructors store it; none of them inspects
\* top_n_rules, min_coverage or max_coverage
SystemInit ==
    /\ pc = "startup"
    /\ \E file \in ConfigFiles : config' = load_config(file)
    /\ pc' = "stage4"
    /\ UNCHANGED <<rules, idx, compiled_rules, exc, data, anomaly_scores,
                   evaluated_rules, selected_rules, rule, record, valid,
                   outcome>>

\* lines 80-81: validate_rule(rule) is false, the loop goes to the next rule
SkipInvalidRule ==
    /\ pc = "stage4"
    /\ idx <= Len(rules)
    /\ ~validate_rule(rules[idx])
    /\ idx' = idx + 1
    /\ UNCHANGED <<pc, rules, compiled_rules, exc, data, anomaly_scores,
                   config, evaluated_rules, selected_rules, rule, record,
                   valid, outcome>>

\* lines 81-83: validate_rule(rule) is true, compile_rule(rule) is called;
\* its exception is caught only by the except of line 98, which logs it and
\* raises it again out of run_pipeline
CompileValidRule ==
    /\ pc = "stage4"
    /\ idx <= Len(rules)
    /\ validate_rule(rules[idx])
    /\ LET c == compile_rule(rules[idx])
       IN /\ rules' = [rules EXCEPT ![idx] = c.rule_after]
          /\ IF c.raised
             THEN /\ pc' = "aborted"
                  /\ exc' = c.exc
                  /\ UNCHANGED <<idx, compiled_rules>>
             ELSE /\ compiled_rules' = Append(compiled_rules, c.compiled_rule)
                  /\ idx' = idx + 1
                  /\ UNCHANGED <<pc, exc>>
    /\ UNCHANGED <<data, anomaly_scores, config, evaluated_rules,
                   selected_rules, rule, record, valid, outcome>>

\* lines 85-89: stage 5, once the loop is through the batch
EvaluateStage ==
    /\ pc = "stage4"
    /\ idx > Len(rules)
    /\ \E res \in {evaluate_and_select_rules(compiled_rules, data,
                                               anomaly_scores, config)} :
          /\ evaluated_rules' = res.evaluated
          /\ selected_rules' = res.selected
          /\ compiled_rules' = inputs_after_evaluation(compiled_rules, data,
                                                       anomaly_scores)
    /\ pc' = "stage6"
    /\ UNCHANGED <<rules, idx, exc, data, anomaly_scores, config, rule,
                   record, valid, outcome>>

\* lines 91-96: _save_results(selected_rules); return selected_rules
SaveResults ==
    /\ pc = "stage6"
    /\ pc' = "done"
    /\ UNCHANGED <<rules, idx, compiled_rules, exc, data, anomaly_scores,
                   config, evaluated_rules, selected_rules, rule, record,
                   valid, outcome>>

Next ==
    \/ SystemInit
    \/ SkipInvalidRule
    \/ CompileValidRule
    \/ EvaluateStage
    \/ SaveResults

Spec == Init /\ [][Next]_vars

---------------------------------------------------------------------------
(* Claims about the selector (SpecEval)                                    *)

REq(x, y) == x[1] * y[2] = y[1] * x[2]

\* computing the metrics of compiled rule r on dataset d raises
MetricsRaise(r, d) == \E e \in d : Call(r, e) = "raise"

Ids(seq) == {seq[i].id : i \in DOMAIN seq}

\* position of the rule with the given id in a list (0 when absent)
PosOf(seq, id) ==
    IF id \in Ids(seq) THEN CHOOSE i \in DOMAIN seq : seq[i].id = id ELSE 0

\* the ranking is a ranking: every evaluated rule once, scores descending
IsRanking(ers) ==
    /\ Cardinality(Ids(ers)) = Len(ers)
    /\ \A i \in 1..(Len(ers) - 1) :
          RLe(ers[i + 1].overall_score, ers[i].overall_score)

\* sel is exactly the in-band rules among the first n of the ranking, in
\* the order of the ranking
IsTopNInBand(sel, ers, n, cfg) ==
    /\ Cardinality(Ids(sel)) = Len(sel)
    /\ \A k \in DOMAIN sel :
          /\ PosOf(ers, sel[k].id) \in 1..n
          /\ sel[k] = ers[PosOf(ers, sel[k].id)]
          /\ InBand(sel[k].metrics.coverage, cfg)
    /\ \A i \in DOMAIN ers :
          (i <= n /\ InBand(ers[i].metrics.coverage, cfg))
              => ers[i].id \in Ids(sel)
    /\ \A k \in 1..(Len(sel) - 1) :
          /\ PosOf(ers, sel[k].id) < PosOf(ers, sel[k + 1].id)
          /\ RLe(sel[k + 1].overall_score, sel[k].overall_score)

\* C1: the result of evaluate_and_select_rules is exactly the rules among
\* the N = top_n_rules highest overall_score whose coverage lies in
\* [min_coverage, max_coverage], in descending overall_score order; a rule
\* ranked below position N is never in the result, so the result has at
\* most N rules and may be empty.
C1_TwoStageSelection ==
    pc = "eval_done" =>
        /\ IsRanking(evaluated_rules)
        /\ Ids(evaluated_rules) =
              {compiled_rules[i].id : i \in {k \in DOMAIN compiled_rules :
                                        ~MetricsRaise(compiled_rules[k], data)}}
        /\ IsTopNInBand(selected_rules, evaluated_rules, config.top_n_rules,
                        config)
        /\ \A i \in DOMAIN evaluated_rules :
              i > config.top_n_rules
                  => evaluated_rules[i].id \notin Ids(selected_rules)
        /\ Len(selected_rules) <= config.top_n_rules

\* C1 witness: a rule ranked below position N has its coverage in the band
\* and is left out, while a rule of the top N is dropped by the band, so
\* that fewer than N rules are returned
C1_Witness ==
    /\ pc = "eval_done"
    /\ Len(selected_rules) < config.top_n_rules
    /\ selected_rules # <<>>
    /\ \E i \in DOMAIN evaluated_rules :
          /\ i > config.top_n_rules
          /\ InBand(evaluated_rules[i].metrics.coverage, config)
          /\ evaluated_rules[i].id \notin Ids(selected_rules)
    /\ \E i \in DOMAIN evaluated_rules :
          /\ i <= config.top_n_rules
          /\ ~InBand(evaluated_rules[i].metrics.coverage, config)

\* C2: whenever two evaluated rules have equal overall_score, the one with
\* the smaller rule id comes first in the ranked list used for the top-N
\* selection, whatever their order in the input list.
C2_TieBreakById ==
    pc = "eval_done" =>
        \A i, j \in DOMAIN evaluated_rules :
            (i < j /\ REq(evaluated_rules[i].overall_score,
                          evaluated_rules[j].overall_score))
                => evaluated_rules[i].id < evaluated_rules[j].id

\* the input list without the rules whose metric computation raises
RECURSIVE WithoutRaising(_, _)
WithoutRaising(crs, d) ==
    IF crs = <<>> THEN <<>>
    ELSE (IF MetricsRaise(Head(crs), d) THEN <<>> ELSE <<Head(crs)>>)
         \o WithoutRaising(Tail(crs), d)

\* C4: if computing the metrics of one compiled rule raises, exactly that
\* rule is excluded from ranking and selection, and the metrics,
\* overall_score, ranking and selection of all other rules are the same as
\* if the failing rule had not been in the input list.
C4_EvaluationFailureIsRuleLocal ==
    pc = "eval_done" =>
        /\ \A without \in {evaluate_and_select_rules(
                                WithoutRaising(compiled_rules, data), data,
                                anomaly_scores, config)} :
              /\ evaluated_rules = without.evaluated
              /\ selected_rules = without.selected
        /\ \A i \in DOMAIN compiled_rules :
              compiled_rules[i].id \in Ids(evaluated_rules)
                  <=> ~MetricsRaise(compiled_rules[i], data)

\* C4 witness: a rule whose metrics raise stands in the input before a rule
\* that is evaluated and selected
C4_Witness ==
    /\ pc = "eval_done"
    /\ \E i, j \in DOMAIN compiled_rules :
          /\ i < j
          /\ MetricsRaise(compiled_rules[i], data)
          /\ compiled_rules[j].id \in Ids(selected_rules)

---------------------------------------------------------------------------
(* Claims about run_pipeline (Spec)                                        *)

\* C3: if validation or compilation of one rule fails, that rule alone is
\* excluded and every other rule of the batch is still validated, compiled
\* and passed to evaluate_and_select_rules; the run is never aborted by a
\* single rule's failure.
C3_CompileFailureIsRuleLocal ==
    /\ pc # "aborted"
    /\ pc \in {"stage6", "done"} =>
          Len(compiled_rules) =
              Cardinality({i \in DOMAIN rules :
                              validate_rule(rules[i])
                              /\ ~compile_rule(rules[i]).raised})

---------------------------------------------------------------------------
(* Reference semantics of the DSL, as the claims state it: evaluation of    *)
(* the expression under the grammar                                         *)
(*   1 ||   2 &&   3 comparisons   4 + -   5 * /   6 unary ! -   7 atoms    *)
(* binary operators left-associative; a variable the record lacks makes     *)
(* the predicate false unless a short-circuit leaves it unevaluated; a      *)
(* division by zero is "undef", and a comparison over "undef" is false.     *)

Val(k, q, b) == [k |-> k, q |-> q, b |-> b]

NumVal(q) == Val("num", q, FALSE)

BoolVal(b) == Val("bool", RZero, b)

\* kinds without a value: "undef", "missing", "error", "none"
NoVal(k) == Val(k, RZero, FALSE)

Failed == [pos |-> 0, val |-> NoVal("error")]

\* value of a numeric literal of NumLits
LitValue(tok) ==
    CASE tok = "0"   -> <<0, 1>>
      [] tok = "0.5" -> <<1, 2>>
      [] tok = "1"   -> <<1, 1>>
      [] tok = "5"   -> <<5, 1>>
      [] tok = "20"  -> <<20, 1>>

\* the identifiers of Names of the reserved form Q<number>_<base>_industry
ReservedForm(var) == var \in {"Q25_g_industry"}

Lookup(var, rec) ==
    IF var \in DOMAIN rec THEN NumVal(<<rec[var], 1>>)
    ELSE IF ReservedForm(var) THEN NoVal("undef")
    ELSE NoVal("missing")

RefLevelOps(lvl) ==
    CASE lvl = 1 -> {"||"}
      [] lvl = 2 -> {"&&"}
      [] lvl = 3 -> {">", "<", ">=", "<=", "==", "!="}
      [] lvl = 4 -> {"+", "-"}
      [] lvl = 5 -> {"*", "/"}
      [] OTHER   -> {}

Compare(op, x, y) ==
    CASE op = ">"  -> RLt(y, x)
      [] op = "<"  -> RLt(x, y)
      [] op = ">=" -> RLe(y, x)
      [] op = "<=" -> RLe(x, y)
      [] op = "==" -> REq(x, y)
      [] op = "!=" -> ~REq(x, y)

ApplyUnary(op, v) ==
    IF v.k = "missing" THEN v
    ELSE IF op = "!" THEN (IF v.k = "bool" THEN BoolVal(~v.b) ELSE NoVal("error"))
    ELSE IF v.k = "num" THEN NumVal(<<-(v.q[1]), v.q[2]>>)
    ELSE IF v.k = "undef" THEN v
    ELSE NoVal("error")

ApplyBinary(op, x, y) ==
    IF op = "||" /\ x.k = "bool" /\ x.b THEN x
    ELSE IF op = "&&" /\ x.k = "bool" /\ ~x.b THEN x
    ELSE IF x.k = "missing" \/ y.k = "missing" THEN NoVal("missing")
    ELSE IF op \in {"||", "&&"}
         THEN (IF x.k = "bool" /\ y.k = "bool" THEN y ELSE NoVal("error"))
    ELSE IF x.k \notin {"num", "undef"} \/ y.k \notin {"num", "undef"}
         THEN NoVal("error")
    ELSE IF op \in RefLevelOps(3)
         THEN (IF x.k = "undef" \/ y.k = "undef" THEN BoolVal(FALSE)
               ELSE BoolVal(Compare(op, x.q, y.q)))
    ELSE IF x.k = "undef" \/ y.k = "undef" THEN NoVal("undef")
    ELSE CASE op = "+" -> NumVal(RAdd(x.q, y.q))
           [] op = "-" -> NumVal(RAdd(x.q, <<-(y.q[1]), y.q[2]>>))
           [] op = "*" -> NumVal(RMul(x.q, y.q))
           [] op = "/" -> IF y.q[1] = 0 THEN NoVal("undef")
                          ELSE IF y.q[1] > 0 THEN NumVal(RDiv(x.q, y.q))
                          ELSE NumVal(RDiv(<<-(x.q[1]), x.q[2]>>,
                                           <<-(y.q[1]), y.q[2]>>))

RECURSIVE Extreme(_, _)
Extreme(fn, args) ==
    IF Len(args) = 1 THEN args[1].q
    ELSE LET rest == Extreme(fn, Tail(args))
         IN IF fn = "max" THEN RMax(args[1].q, rest) ELSE RMin(args[1].q, rest)

ApplyFunction(fn, args) ==
    IF \E i \in DOMAIN args : args[i].k = "missing" THEN NoVal("missing")
    ELSE IF \E i \in DOMAIN args : args[i].k \notin {"num", "undef"}
         THEN NoVal("error")
    ELSE IF (fn = "abs" /\ Len(args) # 1) \/ (fn # "abs" /\ Len(args) < 2)
         THEN NoVal("error")
    ELSE IF \E i \in DOMAIN args : args[i].k = "undef" THEN NoVal("undef")
    ELSE IF fn = "abs" THEN NumVal(<<Abs(args[1].q[1]), args[1].q[2]>>)
    ELSE NumVal(Extreme(fn, args))

RECURSIVE RefEval(_, _, _, _), RefCont(_, _, _, _, _, _)

\* value and end position of the construct of level lvl at position i
RefEval(s, i, lvl, rec) ==
    IF i > Len(s) THEN Failed
    ELSE IF lvl = 7
    THEN IF s[i] \in NumLits
         THEN [pos |-> i + 1, val |-> NumVal(LitValue(s[i]))]
         ELSE IF s[i] \in allowed_functions /\ At(s, i + 1, "(")
         THEN RefCont(s, i + 2, "args", 7, [fn |-> s[i], args |-> <<>>], rec)
         ELSE IF s[i] \in Names
         THEN [pos |-> i + 1, val |-> Lookup(s[i], rec)]
         ELSE IF s[i] = "("
         THEN RefCont(s, i + 1, "paren", 7, NoVal("none"), rec)
         ELSE Failed
    ELSE IF lvl = 6
    THEN IF s[i] \in {"!", "-"}
         THEN RefCont(s, i + 1, "unary", 6, s[i], rec)
         ELSE RefCont(s, i, "atom", 6, NoVal("none"), rec)
    ELSE RefCont(s, i, "first", lvl, NoVal("none"), rec)

\* the rest of a construct from position j on; acc is the value of the left
\* operand ("ops"), the call so far ("args") or the operator ("unary")
RefCont(s, j, k, lvl, acc, rec) ==
    LET r == RefEval(s, IF k = "ops" THEN j + 1 ELSE j,
                     CASE k \in {"first", "ops"} -> lvl + 1
                       [] k = "atom" -> 7
                       [] k = "unary" -> 6
                       [] OTHER -> 1,
                     rec)
    IN CASE k = "first" ->
               IF r.pos = 0 THEN Failed
               ELSE RefCont(s, r.pos, "ops", lvl, r.val, rec)
         [] k = "ops" ->
               IF j <= Len(s) /\ s[j] \in RefLevelOps(lvl)
               THEN IF r.pos = 0 THEN Failed
                    ELSE RefCont(s, r.pos, "ops", lvl,
                                 ApplyBinary(s[j], acc, r.val), rec)
               ELSE [pos |-> j, val |-> acc]
         [] k = "atom" -> r
         [] k = "unary" ->
               IF r.pos = 0 THEN Failed
               ELSE [pos |-> r.pos, val |-> ApplyUnary(acc, r.val)]
         [] k = "paren" ->
               IF r.pos # 0 /\ At(s, r.pos, ")")
               THEN [pos |-> r.pos + 1, val |-> r.val]
               ELSE Failed
         [] k = "args" ->
               IF r.pos = 0 THEN Failed
               ELSE LET a == [acc EXCEPT !.args = Append(@, r.val)]
                    IN IF At(s, r.pos, ",")
                       THEN RefCont(s, r.pos + 1, "args", 7, a, rec)
                       ELSE IF At(s, r.pos, ")")
                       THEN [pos |-> r.pos + 1,
                             val |-> ApplyFunction(a.fn, a.args)]
                       ELSE Failed

\* the predicate of the DSL on a record: "true", "false", or "undefined"
\* where the grammar gives the text no boolean value
RefPredicate(dsl, rec) ==
    LET r == RefEval(dsl, 1, 1, rec)
    IN IF r.pos # Len(dsl) + 1 THEN "undefined"
       ELSE IF r.val.k = "missing" THEN "false"
       ELSE IF r.val.k = "bool" THEN (IF r.val.b THEN "true" ELSE "false")
       ELSE "undefined"

---------------------------------------------------------------------------
(* Claims about the compiled predicate and the validator (SpecRule)        *)

\* the caller has compiled the validated rule and called, or tried to
\* call, its predicate on the record
Applied == pc \in {"called", "compile_raised"}

\* the variables the expression references
ReferencedVars(dsl) ==
    IdentifierMatches(dsl) \ (allowed_functions \cup PyKeywords \cup {"True", "False"})

AllPresent(dsl, rec) == ReferencedVars(dsl) \subseteq DOMAIN rec

LogicalOps == {"&&", "||", "!"}

\* the right operand of a '/' is a literal zero
LiteralZeroDenominator(dsl) ==
    \E i \in 1..(Len(dsl) - 1) : dsl[i] = "/" /\ dsl[i + 1] = "0"

\* the right operand of a '/' is zero on the record
ZeroDenominator(dsl, rec) ==
    \E i \in 1..(Len(dsl) - 1) :
        /\ dsl[i] = "/"
        /\ \/ dsl[i + 1] = "0"
           \/ (dsl[i + 1] \in DOMAIN rec /\ rec[dsl[i + 1]] = 0)

\* C5: for every compiled rule and every record that lacks at least one
\* variable the rule's expression references, calling the rule's
\* execute_function on that record returns false and never raises.
C5_MissingVariableSafety ==
    (Applied /\ ~AllPresent(rule.dsl, record)) => outcome = "false"

\* C6: for every compiled rule whose expression contains a division inside
\* a comparison, on every record where the denominator is exactly zero the
\* containing comparison is false; the call never raises and never returns
\* true because of that comparison.
C6_RuntimeDivisionSafety ==
    (Applied /\ AllPresent(rule.dsl, record)
       /\ ZeroDenominator(rule.dsl, record)) =>
        /\ outcome # "raise"
        /\ (\A i \in DOMAIN rule.dsl : rule.dsl[i] \notin LogicalOps)
               => outcome = "false"

\* the DSL is L op R with op its one logical operator, at position p
SplitsAt(dsl, p) ==
    /\ p \in 2..(Len(dsl) - 1)
    /\ dsl[p] \in {"&&", "||"}
    /\ \A i \in DOMAIN dsl : i # p => dsl[i] \notin LogicalOps \cup {"(", ")"}

\* on the record, L has all its variables and decides the result, while a
\* variable referenced only in R is missing
ShortCircuits(dsl, rec, p) ==
    LET L == SubSeq(dsl, 1, p - 1)
        R == SubSeq(dsl, p + 1, Len(dsl))
    IN /\ AllPresent(L, rec)
       /\ \E v \in ReferencedVars(R) \ ReferencedVars(L) : v \notin DOMAIN rec
       /\ RefPredicate(L, rec) = (IF dsl[p] = "||" THEN "true" ELSE "false")

\* C7: for a rule L || R (resp. L && R), on every record where L is true
\* (resp. false) and all variables of L are present, the predicate returns
\* true (resp. false) even when the record lacks a variable referenced only
\* in R.
C7_ShortCircuit ==
    \A p \in DOMAIN rule.dsl :
        (Applied /\ SplitsAt(rule.dsl, p) /\ ShortCircuits(rule.dsl, record, p))
            => outcome = (IF rule.dsl[p] = "||" THEN "true" ELSE "false")

\* C8: for every rule that passes validation and every record that holds a
\* value for each variable the expression references (no denominator zero),
\* the compiled execute_function returns exactly the boolean obtained by
\* evaluating the DSL expression directly under the grammar.
C8_RoundTrip ==
    (Applied /\ AllPresent(rule.dsl, record)
       /\ ~ZeroDenominator(rule.dsl, record)
       /\ RefPredicate(rule.dsl, record) \in {"true", "false"}) =>
        outcome = RefPredicate(rule.dsl, record)

\* C9: validate_rule rejects every rule whose DSL has a literal zero as the
\* right operand of '/'; a rejected rule is never compiled.
C9_StaticDivisionByZeroRejected ==
    /\ (pc # "rule_start" /\ LiteralZeroDenominator(rule.dsl)) => ~valid
    /\ (pc # "rule_start" /\ ~valid) => (pc = "rejected" /\ outcome = "none")

\* C10: validate_rule accepts a rule only if every identifier in its DSL
\* (other than the function names abs, max, min) is a key of variables_used
\* or has the reserved form Q<number>_<base>_industry.
C10_VariableClosure ==
    (pc # "rule_start" /\ valid) =>
        \A var \in IdentifierMatches(rule.dsl) \ allowed_functions :
            var \in rule.variables_used \/ ReservedForm(var)

---------------------------------------------------------------------------
(* Claims about the validator: functions, grammar, fields (SpecRule)       *)

\* validate_rule has returned
Validated == pc # "rule_start"

\* positions of the calls of the DSL: a name directly followed by '('
CallPositions(dsl) ==
    {i \in 1..(Len(dsl) - 1) : dsl[i] \in Names /\ dsl[i + 1] = "("}

\* number of arguments between position j and the ')' that closes the call,
\* n counting the argument that position j is in (-1: never closed)
RECURSIVE CountArgs(_, _, _, _)
CountArgs(dsl, j, depth, n) ==
    IF j > Len(dsl) THEN -1
    ELSE IF dsl[j] = ")"
         THEN (IF depth = 0 THEN n ELSE CountArgs(dsl, j + 1, depth - 1, n))
    ELSE IF dsl[j] = "(" THEN CountArgs(dsl, j + 1, depth + 1, n)
    ELSE IF dsl[j] = "," /\ depth = 0 THEN CountArgs(dsl, j + 1, depth, n + 1)
    ELSE CountArgs(dsl, j + 1, depth, n)

\* number of arguments of the call at position i
Arity(dsl, i) ==
    IF At(dsl, i + 2, ")") THEN 0 ELSE CountArgs(dsl, i + 2, 0, 1)

\* the call at position i is outside the allow-list or has a wrong arity
BadCall(dsl, i) ==
    \/ dsl[i] \notin {"abs", "max", "min"}
    \/ dsl[i] = "abs" /\ Arity(dsl, i) # 1
    \/ dsl[i] \in {"max", "min"} /\ Arity(dsl, i) < 2

HasBadCall(dsl) == \E i \in CallPositions(dsl) : BadCall(dsl, i)

\* C11: validate_rule rejects every rule whose DSL calls a function other
\* than abs, max or min, whatever variables_used declares, and rejects abs
\* called with a number of arguments other than 1 and max/min called with
\* fewer than 2; no rule with such a call reaches compile_rule.
C11_FunctionAllowList ==
    (Validated /\ HasBadCall(rule.dsl)) =>
        (~valid /\ pc = "rejected" /\ outcome = "none")

\* the text is an expression of the grammar with well-formed calls
WellFormed(dsl) ==
    /\ RefEval(dsl, 1, 1, <<>>).pos = Len(dsl) + 1
    /\ ~HasBadCall(dsl)

\* every variable of the expression is declared or of the reserved form
UsesDeclaredOnly(r) ==
    \A var \in ReferencedVars(r.dsl) :
        var \in r.variables_used \/ ReservedForm(var)

\* C12: every DSL expression that is well-formed under the grammar and uses
\* only declared variables passes the validator's syntax check, for each of
\* the six comparison operators (so a != b with a and b declared is
\* accepted), and an empty expression is rejected as malformed.
C12_GrammarAcceptance ==
    /\ (Validated /\ WellFormed(rule.dsl) /\ UsesDeclaredOnly(rule))
           => validate_dsl_syntax(rule.dsl)
    /\ (Validated /\ WellFormed(rule.dsl) /\ UsesDeclaredOnly(rule)
          /\ rule.fields = required_fields /\ rule.empty = {}) => valid
    /\ (Validated /\ rule.dsl = <<>>)
           => (~validate_dsl_syntax(rule.dsl) /\ ~valid)

\* a required field of the rule is absent, or present but empty
LacksRequiredField(r) ==
    \/ required_fields \ r.fields # {}
    \/ r.empty \cap required_fields # {}
    \/ r.dsl = <<>>
    \/ r.variables_used = {}

\* C13: validate_rule rejects every rule in which any of id, rule_text, dsl,
\* variables_used, period, industry_scope is absent or present but empty,
\* and accepts no such rule.
C13_RequiredFieldsNonEmpty ==
    (Validated /\ LacksRequiredField(rule)) => ~valid

---------------------------------------------------------------------------
(* Claims about the metrics (SpecEval)                                     *)

\* the records of dataset d on which the predicate of r returns true
Hits(r, d) == {e \in d : Call(r, e) = "true"}

\* C14: for every rule and dataset, coverage equals the number of records
\* on which the rule's predicate returns true divided by the number of
\* records; it is 0 when the dataset is empty, and 0 <= coverage <= 1.
C14_Coverage ==
    pc = "eval_done" =>
        \A i \in DOMAIN evaluated_rules :
            LET r == evaluated_rules[i]
                coverage == r.metrics.coverage
            IN /\ coverage[2] > 0
               /\ data # {} =>
                     coverage[1] * Cardinality(data)
                         = Cardinality(Hits(r, data)) * coverage[2]
               /\ data = {} => REq(coverage, RZero)
               /\ RLe(RZero, coverage) /\ RLe(coverage, ROne)

\* C14 witness: a rule that hits some but not all records of the dataset
\* has been evaluated
C14_Witness ==
    /\ pc = "eval_done"
    /\ \E i \in DOMAIN evaluated_rules :
          /\ Hits(evaluated_rules[i], data) # {}
          /\ Hits(evaluated_rules[i], data) # data
          /\ RLt(RZero, evaluated_rules[i].metrics.coverage)
          /\ RLt(evaluated_rules[i].metrics.coverage, ROne)

\* the entities of dataset d that have an anomaly score
Scored(d, scores) == d \cap DOMAIN scores

\* C15: for every rule, dataset and anomaly score map, anomaly_lift equals
\* the mean anomaly score over the entities the rule hits divided by the
\* mean anomaly score over all entities of the dataset, and is exactly 1.0
\* when the rule hits no entity or no anomaly score is available; it is
\* never undefined.  (The quotient is stated as a product, so that a zero
\* overall mean asks nothing of the value.)
C15_AnomalyLift ==
    pc = "eval_done" =>
        \A i \in DOMAIN evaluated_rules :
            LET r == evaluated_rules[i]
                lift == r.metrics.anomaly_lift
                hit == Scored(Hits(r, data), anomaly_scores)
                all == Scored(data, anomaly_scores)
            IN /\ lift[2] > 0
               /\ (hit = {} \/ all = {}) => REq(lift, ROne)
               /\ (hit # {} /\ all # {}) =>
                     REq(RMul(lift, Mean(anomaly_scores, all)),
                         Mean(anomaly_scores, hit))

---------------------------------------------------------------------------
(* Claims about the scorer (SpecScore)                                     *)

\* min(1, max(0, value))
Clamped(value) ==
    IF RLt(value, RZero) THEN RZero
    ELSE IF RLt(ROne, value) THEN ROne
    ELSE value

\* sum over the metrics of names of weights[m] * clamped metrics[m]
RECURSIVE ScoreWith(_, _, _)
ScoreWith(weights, metrics, names) ==
    IF names = {} THEN RZero
    ELSE LET m == CHOOSE x \in names : TRUE
         IN RAdd(RMul(weights[m], Clamped(metrics[m])),
                 ScoreWith(weights, metrics, names \ {m}))

RECURSIVE SumOfWeights(_, _)
SumOfWeights(weights, names) ==
    IF names = {} THEN RZero
    ELSE LET m == CHOOSE x \in names : TRUE
         IN RAdd(weights[m], SumOfWeights(weights, names \ {m}))

ScoreComputed == pc \in {"scored", "score_done"}

\* C16: the weight applied to each of the five metrics in overall_score is
\* the one of the weight mapping in the configuration the caller supplied,
\* so evaluators built with different weight mappings score the same
\* MetricSet according to their own weights.
C16_WeightsFromCaller ==
    ScoreComputed =>
        \A i \in DOMAIN evaluated_rules :
            REq(evaluated_rules[i].overall_score,
                ScoreWith(config.metric_weights, evaluated_rules[i].metrics,
                          MetricNames))

\* C18: each metric contributes weight * min(1, max(0, value)) to
\* overall_score: a raw value above 1 contributes exactly its weight, a
\* negative value 0; so 0 <= overall_score <= sum of the weights; and the
\* band filter compares the raw, unclamped coverage.
C18_ClampedScoring ==
    /\ ScoreComputed =>
          \A i \in DOMAIN evaluated_rules :
              LET r == evaluated_rules[i]
              IN /\ REq(r.overall_score,
                        ScoreWith(metric_weights, r.metrics, MetricNames))
                 /\ RLe(RZero, r.overall_score)
                 /\ RLe(r.overall_score,
                        SumOfWeights(metric_weights, MetricNames))
    /\ pc = "score_done" =>
          /\ \A k \in DOMAIN selected_rules :
                /\ RLe(config.min_coverage, selected_rules[k].metrics.coverage)
                /\ RLe(selected_rules[k].metrics.coverage, config.max_coverage)
          /\ \A i \in DOMAIN evaluated_rules :
                (/\ i <= config.top_n_rules
                 /\ RLe(config.min_coverage, evaluated_rules[i].metrics.coverage)
                 /\ RLe(evaluated_rules[i].metrics.coverage,
                        config.max_coverage))
                    => evaluated_rules[i] \in
                           {selected_rules[k] : k \in DOMAIN selected_rules}

\* C18 witness: a rule with an anomaly_lift of 3.2, a negative stability and
\* a raw coverage of 3.2 has been scored, and the band [0, 1], which holds
\* the clamped coverage, has not selected it
C18_Witness ==
    /\ pc = "score_done"
    /\ evaluated_rules[1].metrics.anomaly_lift = <<16, 5>>
    /\ evaluated_rules[1].metrics.stability = <<-1, 2>>
    /\ evaluated_rules[1].metrics.coverage = <<16, 5>>
    /\ config.max_coverage = ROne
    /\ config.min_coverage = RZero
    /\ selected_rules = <<>>
    /\ RLt(RZero, evaluated_rules[1].overall_score)

---------------------------------------------------------------------------
(* Claims about the configuration (Spec)                                   *)

\* min_coverage > max_coverage, or top_n_rules not a positive integer
Malformed(cfg) ==
    \/ RLt(cfg.max_coverage, cfg.min_coverage)
    \/ cfg.top_n_rules < 1

\* C17: when the configuration has min_coverage > max_coverage (or
\* top_n_rules not a positive integer), the system raises a configuration
\* error at start-up, before any rule is validated, compiled or evaluated;
\* it never runs the pipeline and returns a selection under such a
\* configuration.
C17_MalformedConfigFailsFast ==
    (pc # "startup" /\ Malformed(config)) =>
        /\ pc = "aborted"
        /\ exc = "ConfigurationError"
        /\ idx = 1
        /\ compiled_rules = <<>>

---------------------------------------------------------------------------
(* Claims about the inputs (SpecApi)                                       *)

\* C19: no call of compile_rule or evaluate_and_select_rules changes the
\* input rule definition, the input list of compiled rules, the dataset or
\* the anomaly score map: python_expression / execute_function and
\* metrics / overall_score are set on copies only, and the input list keeps
\* its order and length.
C19_InputsNotMutated ==
    [][/\ rule' = rule
       /\ compiled_rules' = compiled_rules
       /\ data' = data
       /\ anomaly_scores' = anomaly_scores]_vars

\* C19 witness: an evaluation has ranked two rules against their input
\* order, the ranked dicts carrying metrics and overall_score and the input
\* dicts neither
C19_Witness ==
    /\ pc = "eval_done"
    /\ Len(evaluated_rules) >= 2
    /\ evaluated_rules[1].id # compiled_rules[1].id
    /\ \A i \in DOMAIN evaluated_rules :
          {"metrics", "overall_score"} \subseteq DOMAIN evaluated_rules[i]
    /\ \A i \in DOMAIN compiled_rules :
          DOMAIN compiled_rules[i] = {"id", "execute_function"}

===========================================================================
